---- MODULE Spec2Model ----
(***************************************************************************)
(* PasswordStrengthChecker (src/password_checker.py): the strength         *)
(* evaluator, the entropy estimator, the crack-time projector and the      *)
(* password generator, with the callers of src/demo.py.                    *)
(*                                                                         *)
(* A character is a one-character string; a non-ASCII character is written *)
(* by its code point ("U+00E9").  A password (a Python str) is a sequence   *)
(* of characters.  A report (a Python dict) is a record whose DOMAIN is the *)
(* set of keys the dict holds.                                              *)
(***************************************************************************)
EXTENDS Integers, Sequences, FiniteSets

VARIABLES
  password,         \* the str handed to the checker
  pc,               \* where the caller stands: "input", "report", "entropy", "idle", "generated"
  result,           \* the dict check_password_strength returned last
  prev,             \* the previous call: its password and its dict
  entropy,          \* the value _calculate_entropy returned last
  prevEntropy,      \* the previous _calculate_entropy call: its password and its value
  rng,              \* the state of the random module's generator
  length,           \* generate_strong_password's length argument
  exclude_similar,  \* generate_strong_password's exclude_similar argument
  generated         \* the str generate_strong_password returned

vars == <<password, pc, result, prev, entropy, prevEntropy, rng, length,
          exclude_similar, generated>>

----------------------------------------------------------------------------
(* Bounds of the model. *)

\* Longest password entered by a caller.
MaxLen == 13
\* Seeds of the random generator: 1..MaxSeed.
MaxSeed == 250
\* Largest length argument handed to generate_strong_password.
MaxGenLen == 16
\* Smallest length argument handed to generate_strong_password: -MaxNegLen.
MaxNegLen == 2

----------------------------------------------------------------------------
(* Characters. *)

ascii_lowercase ==
  <<"a", "b", "c", "d", "e", "f", "g", "h", "i", "j", "k", "l", "m", "n", "o", "p", "q", "r", "s", "t", "u", "v", "w", "x", "y", "z">>

ascii_uppercase ==
  <<"A", "B", "C", "D", "E", "F", "G", "H", "I", "J", "K", "L", "M", "N", "O", "P", "Q", "R", "S", "T", "U", "V", "W", "X", "Y", "Z">>

digits ==
  <<"0", "1", "2", "3", "4", "5", "6", "7", "8", "9">>

Range(s) == {s[i] : i \in 1..Len(s)}

\* The characters r'[A-Z]' matches.
UpperClass == Range(ascii_uppercase)

\* The characters r'[a-z]' matches.
LowerClass == Range(ascii_lowercase)

\* The characters r'\d' matches on a str pattern: every Unicode decimal digit
\* (category Nd), of which the model holds the ASCII ones and
\* ARABIC-INDIC DIGIT THREE.
DigitClass == Range(digits) \cup {"U+0663"}

\* Faulty variant of SpecialClass: the brackets left out of the character class.
SpecialClass_NoBrackets ==
  {"!", "@", "#", "$", "%", "^", "&", "*", "(", ")", "_", "+", "-", "=",
   "{", "}", ";", "'", ":", "\"", "\\", "|", ",", ".", "<", ">", "/", "?"}

\* The characters r'[!@#$%^&*()_+\-=\[\]{};\':"\\|,.<>\/?]' matches.
SpecialClass ==
  {"!", "@", "#", "$", "%", "^", "&", "*", "(", ")", "_", "+", "-", "=",
   "[", "]", "{", "}", ";", "'", ":", "\"", "\\", "|", ",", ".", "<", ">",
   "/", "?"}

\* str.lower() on one character: A-Z to a-z, LATIN CAPITAL LETTER E WITH ACUTE
\* to its small letter, KELVIN SIGN to k; any other character of the model
\* has no lowercase mapping.
LowerChar(c) ==
  IF c \in UpperClass
    THEN ascii_lowercase[CHOOSE i \in 1..26 : ascii_uppercase[i] = c]
    ELSE IF c = "U+00C9" THEN "U+00E9"
    ELSE IF c = "U+212A" THEN "k"
    ELSE c

\* password.lower()
lower(s) == [i \in 1..Len(s) |-> LowerChar(s[i])]

\* re.search(r'[...]', password) as a bool
search(class, s) == \E i \in 1..Len(s) : s[i] \in class

----------------------------------------------------------------------------
(* The common-password set, as the literal of _load_common_passwords lists  *)
(* it (repeated entries included).                                          *)

common_passwords ==
  {
    <<"1","2","3","4","5","6">>, <<"p","a","s","s","w","o","r","d">>, <<"1","2","3","4","5","6","7","8","9">>, <<"1","2","3","4","5","6","7","8">>, <<"1","2","3","4","5">>, <<"q","w","e","r","t","y">>, <<"a","b","c","1","2","3">>,
    <<"1","1","1","1","1","1">>, <<"1","2","3","4","5","6","7">>, <<"1","2","3","1","2","3">>, <<"a","d","m","i","n">>, <<"l","e","t","m","e","i","n">>, <<"w","e","l","c","o","m","e">>, <<"m","o","n","k","e","y">>,
    <<"p","a","s","s","w","o","r","d","1","2","3">>, <<"1","2","3","4","5","6","7","8","9","0">>, <<"d","r","a","g","o","n">>, <<"m","a","s","t","e","r">>, <<"h","e","l","l","o">>, <<"f","r","e","e","d","o","m">>,
    <<"w","h","a","t","e","v","e","r">>, <<"q","a","z","w","s","x">>, <<"t","r","u","s","t","n","o","1">>, <<"j","o","r","d","a","n">>, <<"h","a","r","l","e","y">>, <<"h","u","n","t","e","r">>, <<"b","u","s","t","e","r">>,
    <<"t","h","o","m","a","s">>, <<"t","i","g","g","e","r">>, <<"r","o","b","e","r","t">>, <<"s","o","c","c","e","r">>, <<"b","a","t","m","a","n">>, <<"t","e","s","t">>, <<"p","a","s","s">>, <<"k","i","l","l","e","r">>,
    <<"h","u","n","t","e","r">>, <<"m","i","k","e">>, <<"c","h","a","r","l","i","e">>, <<"a","n","d","r","e","w">>, <<"m","a","t","t","h","e","w">>, <<"a","c","c","e","s","s">>, <<"s","h","a","d","o","w">>,
    <<"m","i","c","h","a","e","l">>, <<"j","e","s","s","i","c","a">>, <<"d","i","a","m","o","n","d">>, <<"j","o","r","d","a","n">>, <<"m","u","s","t","a","n","g">>, <<"m","i","c","k","e","y">>, <<"s","e","c","r","e","t">>,
    <<"d","a","l","l","a","s">>, <<"d","e","n","n","i","s">>, <<"g","i","n","g","e","r">>, <<"s","t","r","i","k","e","r">>, <<"h","a","m","m","e","r">>, <<"s","i","l","v","e","r">>, <<"j","o","s","e","p","h">>,
    <<"b","l","o","w","m","e">>, <<"s","p","i","t","f","i","r","e">>, <<"g","r","e","e","n">>, <<"s","u","p","e","r","m","a","n">>, <<"b","i","g","d","a","d","d","y">>, <<"j","o","h","n","s","o","n">>, <<"c","h","e","s","t","e","r">>,
    <<"l","o","n","d","o","n">>, <<"m","i","d","n","i","g","h","t">>, <<"b","l","u","e">>, <<"f","i","s","h","i","n","g">>, <<"d","a","v","i","d">>, <<"m","a","d","d","o","g">>, <<"e","a","g","l","e","s">>,
    <<"m","a","c","k","e","n","z","i","e">>, <<"d","o","n","n","a">>, <<"m","u","r","p","h","y">>, <<"f","r","a","n","k">>, <<"g","r","e","e","n">>, <<"l","u","c","k","y">>, <<"a","n","d","r","e","w">>,
    <<"c","h","a","r","l","i","e">>, <<"m","i","c","h","a","e","l">>, <<"s","a","r","a","h">>, <<"j","e","s","s","i","c","a">>, <<"j","o","r","d","a","n">>, <<"t","i","g","e","r">>, <<"h","u","n","t","e","r">>,
    <<"m","i","c","h","e","l","l","e">>, <<"c","h","r","i","s">>, <<"j","e","s","s","i","c","a">>, <<"a","m","a","n","d","a">>, <<"d","a","n","i","e","l">>, <<"j","o","s","h","u","a">>, <<"m","i","c","h","a","e","l">>,
    <<"j","e","n","n","i","f","e","r">>, <<"t","h","o","m","a","s">>, <<"j","e","s","s","i","c","a">>, <<"a","m","a","n","d","a">>, <<"d","a","n","i","e","l">>, <<"j","o","s","h","u","a">>, <<"m","i","c","h","a","e","l">>,
    <<"j","e","n","n","i","f","e","r">>, <<"t","h","o","m","a","s">>, <<"j","e","s","s","i","c","a">>, <<"a","m","a","n","d","a">>, <<"d","a","n","i","e","l">>, <<"j","o","s","h","u","a">>, <<"m","i","c","h","a","e","l">>
  }

----------------------------------------------------------------------------
(* Integers wider than the model checker's, as little-endian sequences of   *)
(* limbs below 2^15 with no leading zero limb (<<>> is 0): Python's int.    *)

Limb == 2^15

RECURSIVE BigFromInt(_)
BigFromInt(n) == IF n = 0 THEN <<>> ELSE <<n % Limb>> \o BigFromInt(n \div Limb)

\* b * m + carry, for 0 <= m < 2^16
RECURSIVE BigMulAdd(_, _, _)
BigMulAdd(b, m, carry) ==
  IF b = <<>> THEN BigFromInt(carry)
  ELSE LET t == b[1] * m + carry
       IN  <<t % Limb>> \o BigMulAdd(Tail(b), m, t \div Limb)

BigMul(b, m) == IF m = 0 THEN <<>> ELSE BigMulAdd(b, m, 0)

\* base ** exp
RECURSIVE BigPow(_, _)
BigPow(base, exp) == IF exp = 0 THEN <<1>> ELSE BigMul(BigPow(base, exp - 1), base)

\* 2 ** exp
BigPow2(exp) == [i \in 1..(exp \div 15 + 1) |-> IF i = exp \div 15 + 1 THEN 2^(exp % 15) ELSE 0]

RECURSIVE BigLessFrom(_, _, _)
BigLessFrom(a, b, i) ==
  IF i = 0 THEN FALSE
  ELSE IF a[i] # b[i] THEN a[i] < b[i]
  ELSE BigLessFrom(a, b, i - 1)

\* a < b
BigLess(a, b) ==
  IF Len(a) # Len(b) THEN Len(a) < Len(b) ELSE BigLessFrom(a, b, Len(a))

RECURSIVE BitLength(_)
BitLength(n) == IF n = 0 THEN 0 ELSE 1 + BitLength(n \div 2)

\* math.log2 of a positive int, in whole bits: the largest e with 2^e <= b.
\* The float's fraction is not kept.
log2(b) == 15 * (Len(b) - 1) + BitLength(b[Len(b)]) - 1

----------------------------------------------------------------------------
(* Entropy estimator and crack-time projector. *)

\* Class sizes added to charset_size.
LowerSize == 26
UpperSize == 26
DigitSize == 10
SpecialSize == 32

\* Faulty variant of charset_size: the special class adds nothing.
charset_size_NoSpecial(s) ==
    (IF search(LowerClass, s) THEN LowerSize ELSE 0)
  + (IF search(UpperClass, s) THEN UpperSize ELSE 0)
  + (IF search(DigitClass, s) THEN DigitSize ELSE 0)

charset_size(s) ==
    (IF search(LowerClass, s) THEN LowerSize ELSE 0)
  + (IF search(UpperClass, s) THEN UpperSize ELSE 0)
  + (IF search(DigitClass, s) THEN DigitSize ELSE 0)
  + (IF search(SpecialClass, s) THEN SpecialSize ELSE 0)

\* _calculate_entropy(password), in whole bits
_calculate_entropy(s) ==
  IF s = <<>> THEN 0
  ELSE IF charset_size(s) = 0 THEN 0
  ELSE log2(BigPow(charset_size(s), Len(s)))

attempts_per_second == 1000000000

\* seconds < limit, for seconds = total_attempts / attempts_per_second and
\* limit = f1 * f2 * f3 * f4
SecondsBelow(total_attempts, f1, f2, f3, f4) ==
  BigLess(total_attempts,
          BigMul(BigMul(BigMul(BigMul(BigFromInt(attempts_per_second), f1), f2), f3), f4))

\* _estimate_crack_time(entropy): the wording of the returned string; the
\* number printed before the unit is not kept.
_estimate_crack_time(e) ==
  IF e <= 0 THEN "Instant"
  ELSE LET total_attempts == BigPow2(e - 1)
       IN  IF SecondsBelow(total_attempts, 1, 1, 1, 1) THEN "Less than 1 second"
           ELSE IF SecondsBelow(total_attempts, 60, 1, 1, 1) THEN "seconds"
           ELSE IF SecondsBelow(total_attempts, 60, 60, 1, 1) THEN "minutes"
           ELSE IF SecondsBelow(total_attempts, 60, 60, 24, 1) THEN "hours"
           ELSE IF SecondsBelow(total_attempts, 60, 60, 24, 365) THEN "days"
           ELSE "years"

----------------------------------------------------------------------------
(* Strength evaluator. *)

\* len(password) >= 8, the "length" check
MinLength == 8
\* len(password) >= 12 earns the second length point
LongLength == 12

\* Faulty variant of EmptyReport: the empty password reported Very Weak.
EmptyReport_VeryWeak ==
  [strength |-> "Very Weak", score |-> 0, issues |-> <<"Password is empty">>]

\* if not password: ...
EmptyReport ==
  [strength |-> "Weak", score |-> 0, issues |-> <<"Password is empty">>]

\* if password.lower() in self.common_passwords: ...
CommonReport ==
  [strength |-> "Very Weak",
   score |-> 0,
   issues |-> <<"Password is in the top 1000 common passwords list">>,
   recommendations |-> <<"Choose a unique password that's not commonly used">>]

has_upper(s) == search(UpperClass, s)
has_lower(s) == search(LowerClass, s)
has_digit(s) == search(DigitClass, s)
has_special(s) == search(SpecialClass, s)

\* Faulty variant of LengthScore: the second point only above 12 characters.
LengthScore_Above(s) ==
  IF Len(s) < MinLength THEN 0 ELSE IF Len(s) > LongLength THEN 2 ELSE 1

\* The points of the length check.
LengthScore(s) ==
  IF Len(s) < MinLength THEN 0 ELSE IF Len(s) >= LongLength THEN 2 ELSE 1

\* score, after the length check and the four variety checks
Score(s) ==
    LengthScore(s)
  + (IF has_upper(s) THEN 1 ELSE 0)
  + (IF has_lower(s) THEN 1 ELSE 0)
  + (IF has_digit(s) THEN 1 ELSE 0)
  + (IF has_special(s) THEN 1 ELSE 0)

\* issues, in the order the checks append them
Issues(s) ==
     (IF Len(s) < MinLength THEN <<"Password is too short (minimum 8 characters)">> ELSE <<>>)
  \o (IF has_upper(s) THEN <<>> ELSE <<"No uppercase letters">>)
  \o (IF has_lower(s) THEN <<>> ELSE <<"No lowercase letters">>)
  \o (IF has_digit(s) THEN <<>> ELSE <<"No numbers">>)
  \o (IF has_special(s) THEN <<>> ELSE <<"No special characters">>)

\* recommendations, in the order the checks append them
Recommendations(s) ==
     (IF Len(s) < MinLength THEN <<"Increase password length to at least 8 characters">> ELSE <<>>)
  \o (IF has_upper(s) THEN <<>> ELSE <<"Add uppercase letters (A-Z)">>)
  \o (IF has_lower(s) THEN <<>> ELSE <<"Add lowercase letters (a-z)">>)
  \o (IF has_digit(s) THEN <<>> ELSE <<"Add numbers (0-9)">>)
  \o (IF has_special(s) THEN <<>> ELSE <<"Add special characters (!@#$%^&*...)">>)

\* Faulty variant of Strength: the thresholds compared strictly.
Strength_Strict(score) ==
  IF score < 2 THEN "Weak" ELSE IF score < 4 THEN "Moderate" ELSE "Strong"

\* Determine strength based on score
Strength(score) ==
  IF score <= 2 THEN "Weak" ELSE IF score <= 4 THEN "Moderate" ELSE "Strong"

\* The dict of the scoring path.
FullReport(s) ==
  [strength |-> Strength(Score(s)),
   score |-> Score(s),
   entropy |-> _calculate_entropy(s),
   crack_time |-> _estimate_crack_time(_calculate_entropy(s)),
   issues |-> Issues(s),
   recommendations |-> Recommendations(s),
   checks |-> [length |-> Len(s) >= MinLength,
               uppercase |-> has_upper(s),
               lowercase |-> has_lower(s),
               numbers |-> has_digit(s),
               special |-> has_special(s)]]

\* Faulty variant of check_password_strength: the lookup without lower().
check_password_strength_CaseSensitive(s) ==
  IF s = <<>> THEN EmptyReport
  ELSE IF s \in common_passwords THEN CommonReport
  ELSE FullReport(s)

\* check_password_strength(password)
check_password_strength(s) ==
  IF s = <<>> THEN EmptyReport
  ELSE IF lower(s) \in common_passwords THEN CommonReport
  ELSE FullReport(s)

----------------------------------------------------------------------------
(* Passwords the callers enter. *)

\* Short passwords: one for each combination of the four classes, and
\* characters of no class (a space, accented letters, a non-ASCII digit).
SeedPasswords ==
  {<<"a">>, <<"A">>, <<"1">>, <<"!">>, <<" ">>,
   <<"U+00E9">>, <<"U+00C9">>, <<"U+0663">>,
   <<"a", "A">>, <<"a", "1">>, <<"a", "!">>, <<"A", "1">>, <<"A", "!">>, <<"1", "!">>,
   <<"A", "a", "1">>, <<"A", "a", "!">>, <<"a", "1", "!">>, <<"A", "1", "!">>,
   <<"A", "a", "1", "!">>}

\* s, lengthened to n characters by repeating its last character
Pad(s, n) ==
  IF Len(s) >= n THEN s ELSE s \o [i \in 1..(n - Len(s)) |-> s[Len(s)]]

\* Spellings of common passwords in other cases, and passwords of demo.py.
NamedPasswords ==
  {<<"p","a","s","s","w","o","r","d">>,
   <<"P","a","s","s","W","o","r","d">>,
   <<"P","A","S","S","W","O","R","D","1","2","3">>,
   <<"A","d","m","i","n">>,
   <<"U+212A","i","l","l","e","r">>,
   <<"a","b","c","1","2","3">>,
   <<"M","y","P","a","s","s","w","o","r","d","1","2","3","!">>,
   <<"P","@","s","s","w","0","r","d","!">>}

Passwords ==
  {<<>>} \cup {Pad(s, n) : s \in SeedPasswords, n \in 1..MaxLen} \cup NamedPasswords

----------------------------------------------------------------------------
(* The callers of the evaluator: the loop of demo_password_analysis and     *)
(* choice 1 of main.                                                        *)

NoReport == [pending |-> TRUE]
NoCall == [password |-> <<>>, result |-> NoReport]
NoEntropyCall == [password |-> <<>>, called |-> FALSE, entropy |-> 0]

IdleGenerator ==
  /\ rng = 0
  /\ length = 0
  /\ exclude_similar = FALSE
  /\ generated = <<>>

IdleEntropy ==
  /\ entropy = 0
  /\ prevEntropy = NoEntropyCall

Init ==
  /\ password \in Passwords
  /\ pc = "input"
  /\ result = NoReport
  /\ prev = NoCall
  /\ IdleEntropy
  /\ IdleGenerator

\* result = checker.check_password_strength(password)
Check ==
  /\ pc = "input"
  /\ result' = check_password_strength(password)
  /\ pc' = "report"
  /\ UNCHANGED <<password, prev, entropy, prevEntropy, rng, length, exclude_similar, generated>>

\* The caller takes the next password.
Enter(p) ==
  /\ pc = "report"
  /\ prev' = [password |-> password, result |-> result]
  /\ password' = p
  /\ result' = NoReport
  /\ pc' = "input"
  /\ UNCHANGED <<entropy, prevEntropy, rng, length, exclude_similar, generated>>

Next ==
  \/ Check
  \/ \E p \in Passwords : Enter(p)

Spec == Init /\ [][Next]_vars

----------------------------------------------------------------------------
(* A direct caller of _calculate_entropy, over examples of growing length   *)
(* as in demo_entropy_calculation: a password is measured, lengthened by    *)
(* repeating its last character, which leaves the classes present as they   *)
(* are, and measured again.                                                 *)

InitEntropy ==
  /\ password \in {<<>>} \cup SeedPasswords \cup NamedPasswords
  /\ pc = "input"
  /\ result = NoReport
  /\ prev = NoCall
  /\ IdleEntropy
  /\ IdleGenerator

\* entropy = checker._calculate_entropy(password)
CalcEntropy ==
  /\ pc = "input"
  /\ entropy' = _calculate_entropy(password)
  /\ pc' = "entropy"
  /\ UNCHANGED <<password, result, prev, prevEntropy, rng, length, exclude_similar, generated>>

\* The caller takes the password one character longer.
Lengthen ==
  /\ pc = "entropy"
  /\ password # <<>>
  /\ Len(password) < MaxLen
  /\ prevEntropy' = [password |-> password, called |-> TRUE, entropy |-> entropy]
  /\ password' = Pad(password, Len(password) + 1)
  /\ pc' = "input"
  /\ UNCHANGED <<entropy, result, prev, rng, length, exclude_similar, generated>>

NextEntropy ==
  \/ CalcEntropy
  \/ Lengthen

SpecEntropy == InitEntropy /\ [][NextEntropy]_vars

----------------------------------------------------------------------------
(* The random module: a seeded pseudo-random generator.  Its state is all   *)
(* the randomness of a run; the model's generator is the Lehmer generator   *)
(* x -> 75 x mod 65537, seeded in 1..MaxSeed.                               *)

\* One step of the generator.
NextRng(s) == (s * 75) % 65537

\* The state after k draws.
RECURSIVE RngAfter(_, _)
RngAfter(s, k) == IF k <= 0 THEN s ELSE RngAfter(NextRng(s), k - 1)

\* random.choice(seq), drawn in state s (the state after the draw)
choice(seq, s) == seq[(s % Len(seq)) + 1]

\* x with x[i] and x[j] exchanged
Swap(x, i, j) == [x EXCEPT ![i] = x[j], ![j] = x[i]]

\* random.shuffle(x): for i from len(x) - 1 down to 1, exchange x[i] with
\* x[randbelow(i + 1)] (positions counted from 0); s is the state before
\* the draw for i.
RECURSIVE ShuffleFrom(_, _, _)
ShuffleFrom(x, i, s) ==
  IF i < 1 THEN x
  ELSE ShuffleFrom(Swap(x, i + 1, (NextRng(s) % (i + 1)) + 1), i - 1, NextRng(s))

shuffle(x, s) == ShuffleFrom(x, Len(x) - 1, s)

----------------------------------------------------------------------------
(* Password generator. *)

\* str.replace(c, '')
Remove(seq, c) == SelectSeq(seq, LAMBDA x : x # c)

\* special = "!@#$%^&*()_+-=[]{}|;:,.<>?"
special ==
  <<"!", "@", "#", "$", "%", "^", "&", "*", "(", ")", "_", "+", "-", "=",
    "[", "]", "{", "}", "|", ";", ":", ",", ".", "<", ">", "?">>

\* The four character sets, after the exclusion of similar-looking characters.
GenLowercase(excl) ==
  IF excl THEN Remove(Remove(ascii_lowercase, "l"), "i") ELSE ascii_lowercase

GenUppercase(excl) ==
  IF excl THEN Remove(Remove(ascii_uppercase, "I"), "O") ELSE ascii_uppercase

\* Faulty variant of GenDigits: only '0' removed.
GenDigits_KeepOne(excl) ==
  IF excl THEN Remove(digits, "0") ELSE digits

GenDigits(excl) ==
  IF excl THEN Remove(Remove(digits, "0"), "1") ELSE digits

GenSpecial(excl) ==
  IF excl THEN Remove(Remove(special, "|"), "I") ELSE special

\* all_chars = lowercase + uppercase + digits + special
all_chars(excl) ==
  GenLowercase(excl) \o GenUppercase(excl) \o GenDigits(excl) \o GenSpecial(excl)

\* Shortest password the generator returns.
GenMinLength == 8

\* Faulty variant of ClampLength: the length taken as given.
ClampLength_None(n) == n

\* if length < 8: length = 8
ClampLength(n) == IF n < GenMinLength THEN GenMinLength ELSE n

\* range(length - 4): the number of fill characters
FillCount(n) == IF n - 4 < 0 THEN 0 ELSE n - 4

\* The list before the shuffle: one character of each set, then the fill.
Unshuffled(n, excl, s) ==
     <<choice(GenLowercase(excl), RngAfter(s, 1)),
       choice(GenUppercase(excl), RngAfter(s, 2)),
       choice(GenDigits(excl), RngAfter(s, 3)),
       choice(GenSpecial(excl), RngAfter(s, 4))>>
  \o [i \in 1..FillCount(n) |-> choice(all_chars(excl), RngAfter(s, 4 + i))]

\* generate_strong_password(length, exclude_similar), from generator state s
generate_strong_password(n, excl, s) ==
  shuffle(Unshuffled(ClampLength(n), excl, s),
          RngAfter(s, 4 + FillCount(ClampLength(n))))

\* The draws one call makes: the choices and the shuffle's.
Draws(n) == 4 + FillCount(ClampLength(n)) + (4 + FillCount(ClampLength(n)) - 1)

\* The length arguments the callers hand over.
GenLengths == (0 - MaxNegLen)..MaxGenLen

InitGen ==
  /\ rng \in 1..MaxSeed
  /\ pc = "idle"
  /\ password = <<>>
  /\ result = NoReport
  /\ prev = NoCall
  /\ IdleEntropy
  /\ length = 0
  /\ exclude_similar = FALSE
  /\ generated = <<>>

\* password = checker.generate_strong_password(length, exclude_similar)
Generate(n, excl) ==
  /\ pc = "idle"
  /\ length' = n
  /\ exclude_similar' = excl
  /\ generated' = generate_strong_password(n, excl, rng)
  /\ rng' = RngAfter(rng, Draws(n))
  /\ pc' = "generated"
  /\ UNCHANGED <<password, result, prev, entropy, prevEntropy>>

\* result = checker.check_password_strength(password), on the generated password
CheckGenerated ==
  /\ pc = "generated"
  /\ password' = generated
  /\ result' = check_password_strength(generated)
  /\ pc' = "report"
  /\ UNCHANGED <<prev, entropy, prevEntropy, rng, length, exclude_similar, generated>>

NextGen ==
  \/ \E n \in GenLengths, excl \in BOOLEAN : Generate(n, excl)
  \/ CheckGenerated

SpecGen == InitGen /\ [][NextGen]_vars

----------------------------------------------------------------------------
(* Properties: the evaluator (Spec).                                        *)

Reported == pc = "report"

\* The caller's password lowercases to a member of the common-password set.
IsCommon(s) == lower(s) \in common_passwords

\* The password went down the numeric scoring path.
Scored(s) == s # <<>> /\ ~IsCommon(s)

ReportFields ==
  {"strength", "score", "entropy", "crack_time", "issues", "recommendations", "checks"}

\* C2: every report, the empty password's and a common password's included,
\* holds the one fixed set of fields: strength, score, entropy, crack_time,
\* issues, recommendations and checks.
C2_CompleteReport == Reported => DOMAIN result = ReportFields

FlagCount(checks) ==
    (IF checks.uppercase THEN 1 ELSE 0) + (IF checks.lowercase THEN 1 ELSE 0)
  + (IF checks.numbers THEN 1 ELSE 0) + (IF checks.special THEN 1 ELSE 0)

\* The length bonus as the claim states it.
LengthBonus(n) == IF n < 8 THEN 0 ELSE IF n < 12 THEN 1 ELSE 2

\* C4: on the scoring path the score is the length bonus (0 below 8, 1 from
\* 8 to 11, 2 from 12) plus the number of true composition flags; it lies in
\* 0..6 and is 6 exactly when the length is at least 12 and all four flags
\* are true.
C4_ScoreFormula ==
  Reported /\ Scored(password) =>
    /\ "checks" \in DOMAIN result
    /\ result.checks.uppercase = search(UpperClass, password)
    /\ result.checks.lowercase = search(LowerClass, password)
    /\ result.checks.numbers = search(DigitClass, password)
    /\ result.checks.special = search(SpecialClass, password)
    /\ result.score = LengthBonus(Len(password)) + FlagCount(result.checks)
    /\ result.score \in 0..6
    /\ result.score = 6 <=> (Len(password) >= 12 /\ FlagCount(result.checks) = 4)

\* A password of 12 characters or more with all four classes has scored 6.
C4_Witness ==
  /\ Reported
  /\ Scored(password)
  /\ Len(password) >= 12
  /\ result.score = 6

AsciiScore(s) ==
    LengthBonus(Len(s))
  + (IF search(Range(ascii_uppercase), s) THEN 1 ELSE 0)
  + (IF search(Range(ascii_lowercase), s) THEN 1 ELSE 0)
  + (IF search(Range(digits), s) THEN 1 ELSE 0)
  + (IF search(SpecialClass, s) THEN 1 ELSE 0)

\* C8: classification is by ASCII class: only A-Z, a-z and 0-9 set the
\* uppercase, lowercase and digit flags, so a character outside them adds
\* nothing to the score and nothing to the charset size of the entropy.
C8_AsciiClassification ==
  Reported /\ Scored(password) =>
    /\ result.checks.uppercase = search(Range(ascii_uppercase), password)
    /\ result.checks.lowercase = search(Range(ascii_lowercase), password)
    /\ result.checks.numbers = search(Range(digits), password)
    /\ result.score = AsciiScore(password)
    /\ (AsciiScore(password) = LengthBonus(Len(password)) => result.entropy = 0)

----------------------------------------------------------------------------
(* Properties: the entropy estimator (SpecEntropy).                         *)

\* The charset size as the claim states it.
ClaimedCharset(s) ==
    (IF search(LowerClass, s) THEN 26 ELSE 0) + (IF search(UpperClass, s) THEN 26 ELSE 0)
  + (IF search(DigitClass, s) THEN 10 ELSE 0) + (IF search(SpecialClass, s) THEN 32 ELSE 0)

\* The classes present in s.
ClassesPresent(s) ==
  <<search(LowerClass, s), search(UpperClass, s), search(DigitClass, s),
    search(SpecialClass, s)>>

\* e is log2(n) in whole bits: 2^e <= n < 2^(e+1)
IsLog2(e, n) == ~BigLess(n, BigPow2(e)) /\ BigLess(n, BigPow2(e + 1))

\* C9: the entropy is 0 exactly for the empty password and a password with
\* no character of the four classes; otherwise it is log2(charset ^ length)
\* (in whole bits) for the charset 26 + 26 + 10 + 32 summed over the classes
\* present; it is never negative, and does not decrease when the password is
\* lengthened with the classes present unchanged.
C9_Entropy ==
  pc = "entropy" =>
    /\ entropy >= 0
    /\ entropy = 0 <=> (password = <<>> \/ ClaimedCharset(password) = 0)
    /\ entropy # 0 => IsLog2(entropy, BigPow(ClaimedCharset(password), Len(password)))
    /\ (/\ prevEntropy.called
        /\ ClassesPresent(prevEntropy.password) = ClassesPresent(password)
        /\ Len(prevEntropy.password) <= Len(password))
       => prevEntropy.entropy <= entropy

\* A lengthened password of all four classes has been measured, with more
\* entropy than before.
C9_Witness ==
  /\ pc = "entropy"
  /\ prevEntropy.called
  /\ Len(password) = Len(prevEntropy.password) + 1
  /\ ClaimedCharset(password) = 94
  /\ prevEntropy.entropy > 0
  /\ entropy > prevEntropy.entropy

----------------------------------------------------------------------------
(* Properties: the generator (SpecGen).                                     *)

Generated == pc = "generated" \/ (pc = "report" /\ generated # <<>>)

SimilarChars == {"l", "i", "I", "O", "0", "1", "|"}

\* C6: for every length argument, negative and below 8 included, the
\* generated password has exactly max(length, 8) characters and holds a
\* lowercase letter, an uppercase letter, a digit and a character of the
\* generator's special set.
C6_GeneratedShape ==
  Generated =>
    /\ Len(generated) = (IF length > 8 THEN length ELSE 8)
    /\ search(Range(ascii_lowercase), generated)
    /\ search(Range(ascii_uppercase), generated)
    /\ search(Range(digits), generated)
    /\ search(Range(special), generated)

\* A negative length argument has produced a password of 8 characters.
C6_Witness ==
  /\ pc = "generated"
  /\ length < 0
  /\ Len(generated) = 8

\* C7: with exclude_similar set, the generated password holds none of
\* l, i, I, O, 0, 1, |.
C7_NoSimilar ==
  Generated /\ exclude_similar => ~search(SimilarChars, generated)

\* With exclude_similar set, a password longer than 8 has been generated.
C7_Witness ==
  /\ pc = "generated"
  /\ exclude_similar
  /\ length >= 12
  /\ Len(generated) = length

\* C10: a generated password is never a common password, has all four flags
\* true under the evaluator's classes (the generator's special characters
\* are all special for the evaluator), and is rated Strong, with score 5 for
\* 8 to 11 characters and 6 from 12, in a report that holds entropy and
\* crack_time.
C10_GeneratedIsStrong ==
  /\ Range(special) \subseteq SpecialClass
  /\ pc = "report" /\ generated # <<>> =>
       /\ password = generated
       /\ ~IsCommon(generated)
       /\ {"entropy", "crack_time", "checks"} \subseteq DOMAIN result
       /\ result.checks.uppercase
       /\ result.checks.lowercase
       /\ result.checks.numbers
       /\ result.checks.special
       /\ result.score = (IF Len(generated) >= 12 THEN 6 ELSE 5)
       /\ result.strength = "Strong"

\* A generated password of 8 characters has been rated Strong with score 5.
C10_Witness ==
  /\ pc = "report"
  /\ Len(generated) = 8
  /\ result.score = 5
  /\ result.strength = "Strong"
  /\ result.entropy > 0

====
